---- MODULE Spec2Model ----
(***************************************************************************)
(* Report ingestion and deduplication of the pothole map (katyufigyelo).   *)
(*                                                                         *)
(* The repository holds four builds of the App component, all writing the  *)
(* same `potholes` table:                                                  *)
(*   "P0"  src/unnamed/part_000      address form, ilike + limit(1),       *)
(*                                   increment by read-then-update         *)
(*   "A2"  src/App.tsx 198-277       address form, ilike + maybeSingle,    *)
(*                                   increment by rpc                      *)
(*   "T1"  src/App.tsx 22-87         map tap, plain insert, no try/finally *)
(*   "T3"  src/App.tsx 408-554       map tap, plain insert, try/finally    *)
(* A client is one browser running one build.  Every `await` of a handler  *)
(* is a point where other clients' steps interleave; a store call takes    *)
(* effect atomically at the store when its reply step is taken.            *)
(*                                                                         *)
(* Text is a sequence of one-character strings.                            *)
(*                                                                         *)
(* Four specifications share the actions and differ in where they start:   *)
(*   Spec        usual forms, the table empty or holding one row           *)
(*   SpecEdge    unusual forms, the table holding one row or a doubled row *)
(*   SpecLegacy  usual forms, the table holding a row without a count      *)
(*   SpecRepeat  one place reported over and over, one submission more     *)
(***************************************************************************)
EXTENDS Integers, Sequences, FiniteSets

\* ---------------------------------------------------------------- bounds

\* Submissions (runs of handleSubmit past its guard) in one behaviour.
MaxSubmits == 2

\* Submissions in one behaviour in which every user reports the same place.
MaxRepeats == 3

Clients == {"c1", "c2"}

AddrVariants == {"P0", "A2"}
TapVariants == {"T1", "T3"}
Variants == AddrVariants \cup TapVariants

\* <option value=...> of the road position select
RoadPositions == {"center", "edge", "lane_change"}

\* What the user can have filled into the address form when submitting it:
\* one place spelled in two letter cases, and a second place.
AddressForms ==
  { [city |-> <<"p">>, address |-> <<"a">>, roadPos |-> "center"],
    [city |-> <<"p">>, address |-> <<"A">>, roadPos |-> "edge"],
    [city |-> <<"p">>, address |-> <<"b">>, roadPos |-> "lane_change"] }

\* What the user can have tapped and filled into the tap form.
TapForms ==
  { [newCoords |-> [lat |-> 47, lng |-> 19], desc |-> <<"P", ",", " ", "a">>,
     roadPos |-> "center"],
    [newCoords |-> [lat |-> 48, lng |-> 20], desc |-> <<"x">>, roadPos |-> "edge"] }

\* The address form filled in unusually: a wildcard character as the street,
\* white space before the street, white space after the city, no city, no
\* street.
EdgeAddressForms ==
  { [city |-> <<"p">>, address |-> <<"%">>, roadPos |-> "center"],
    [city |-> <<"p">>, address |-> <<" ", "a">>, roadPos |-> "center"],
    [city |-> <<"p", " ">>, address |-> <<"a">>, roadPos |-> "edge"],
    [city |-> <<>>, address |-> <<"a">>, roadPos |-> "lane_change"],
    [city |-> <<"p">>, address |-> <<>>, roadPos |-> "center"] }

\* The tap form submitted with an empty description, and with a usual one.
EdgeTapForms ==
  { [newCoords |-> [lat |-> 47, lng |-> 19], desc |-> <<>>, roadPos |-> "center"],
    [newCoords |-> [lat |-> 48, lng |-> 20], desc |-> <<"x">>, roadPos |-> "edge"] }

\* Every user reports the one place "p" / "a".
RepeatAddressForms ==
  { [city |-> <<"p">>, address |-> <<"a">>, roadPos |-> "center"] }

RepeatTapForms ==
  { [newCoords |-> [lat |-> 47, lng |-> 19], desc |-> <<"P", ",", " ", "a">>,
     roadPos |-> "center"] }

\* One candidate of the resolver's answer: lat and lon are numeric strings.
GeoCandidates ==
  { [lat |-> <<"4", "7">>, lon |-> <<"1", "9">>],
    [lat |-> <<"4", "6">>, lon |-> <<" ", "2", "0">>] }

\* ---------------------------------------------------------------- text

Lower(ch) ==
  CASE ch = "A" -> "a"
    [] ch = "B" -> "b"
    [] ch = "P" -> "p"
    [] ch = "X" -> "x"
    [] OTHER -> ch

Upper(ch) ==
  CASE ch = "a" -> "A"
    [] ch = "b" -> "B"
    [] ch = "p" -> "P"
    [] ch = "x" -> "X"
    [] OTHER -> ch

RECURSIVE TrimStart(_)
TrimStart(s) ==
  IF s # <<>> /\ Head(s) = " " THEN TrimStart(Tail(s)) ELSE s

RECURSIVE TrimEnd(_)
TrimEnd(s) ==
  IF s # <<>> /\ s[Len(s)] = " " THEN TrimEnd(SubSeq(s, 1, Len(s) - 1)) ELSE s

\* String.prototype.trim
Trim(s) == TrimEnd(TrimStart(s))

\* rawAddress.charAt(0).toUpperCase() + rawAddress.slice(1)
Capitalize(s) == IF s = <<>> THEN s ELSE <<Upper(Head(s))>> \o Tail(s)

\* `${city}, ${address.trim()}` with the first character upper-cased
FullAddressP0(city, address) == Capitalize(city \o <<",", " ">> \o Trim(address))

\* `${city.trim()}, ${address.trim()}`
FullAddressA2(city, address) == Trim(city) \o <<",", " ">> \o Trim(address)

FullAddress(v, city, address) ==
  IF v = "P0" THEN FullAddressP0(city, address) ELSE FullAddressA2(city, address)

\* The store's ILIKE: the pattern against the whole text, letter case ignored,
\* % for any run of characters and _ for any one character.
RECURSIVE ILike(_, _)
ILike(pattern, text) ==
  IF pattern = <<>> THEN text = <<>>
  ELSE IF Head(pattern) = "%"
    THEN ILike(Tail(pattern), text) \/ (text # <<>> /\ ILike(pattern, Tail(text)))
  ELSE IF text = <<>> THEN FALSE
  ELSE IF Head(pattern) = "_" THEN ILike(Tail(pattern), Tail(text))
  ELSE Lower(Head(pattern)) = Lower(Head(text)) /\ ILike(Tail(pattern), Tail(text))

Digits == {"0", "1", "2", "3", "4", "5", "6", "7", "8", "9"}

DigitValue(ch) ==
  CASE ch = "0" -> 0 [] ch = "1" -> 1 [] ch = "2" -> 2 [] ch = "3" -> 3
    [] ch = "4" -> 4 [] ch = "5" -> 5 [] ch = "6" -> 6 [] ch = "7" -> 7
    [] ch = "8" -> 8 [] OTHER -> 9

RECURSIVE DigitPrefix(_, _)
DigitPrefix(s, acc) ==
  IF s # <<>> /\ Head(s) \in Digits
    THEN DigitPrefix(Tail(s), 10 * acc + DigitValue(Head(s)))
    ELSE acc

NaN == -1

\* parseFloat on the integral numeric strings of the model: leading white
\* space is skipped, the longest numeric prefix is converted, NaN without one.
ParseFloat(s) ==
  LET t == TrimStart(s)
  IN  IF t # <<>> /\ Head(t) \in Digits THEN DigitPrefix(t, 0) ELSE NaN

\* ---------------------------------------------------------------- state

VARIABLES
  potholes,   \* the table: a set of rows
  variant,    \* variant[c]: the build client c runs
  supabase,   \* supabase[c]: whether the client handle is non-null
  inputs,     \* what the users of this behaviour type: "plain", "edge" or
              \* "repeat" forms
  pc,         \* pc[c]: the await handleSubmit is suspended at, "done", or "idle"
  loading,    \* loading[c]: the loading flag
  form,       \* form[c]: what the running handler captured from the form
  existing,   \* existing[c]: the row its lookup returned, or NoRow
  geoData,    \* geoData[c]: the resolver's answer to it
  reports,    \* reports[c]: the published snapshot
  reads,      \* reads[c]: the list reads of fetchReports in flight
  sent,       \* sent[c]: the calls the running handler has issued
  wrote,      \* wrote[c]: the store write it had acknowledged
  notes,      \* notes[c]: the alerts it has shown
  nsub,       \* history: submissions started so far
  overlap,    \* history: a submission started while another client's was running
  log         \* history: the writes the store has acknowledged, in order

store == <<potholes, log>>
build == <<variant, supabase, inputs>>
handler == <<pc, loading, form, existing, geoData, sent, wrote, notes>>
fetches == <<reports, reads>>
history == <<nsub, overlap>>
vars == <<store, build, handler, fetches, history>>

NoRow == [id |-> 0, reports_count |-> 0]
NoForm == [location_desc |-> <<>>, road_position |-> "null", lat |-> 0, lng |-> 0]
NoGeo == [kind |-> "none", body |-> <<>>]

\* How a call to the store can settle: data, an error object, a rejection.
StoreOutcomes == {"ok", "error", "throw"}

\* What the resolver can answer: a rejected fetch or unparsable body, a null
\* body, an empty array, or one candidate (limit=1).
GeoResponses ==
  {[kind |-> "throw", body |-> <<>>], [kind |-> "null", body |-> <<>>],
   [kind |-> "json", body |-> <<>>]}
    \cup {[kind |-> "json", body |-> <<g>>] : g \in GeoCandidates}

\* A row an earlier submission of "p" / "a" left in the table.
SeedRow ==
  [id |-> 1, lat |-> 47, lng |-> 19, location_desc |-> <<"P", ",", " ", "a">>,
   road_position |-> "center", reports_count |-> 1]

\* A second row of the same description, as two clients' submissions of
\* "p" / "a" leave it when both lookups miss and both insert.
SeedTwin ==
  [id |-> 2, lat |-> 47, lng |-> 19, location_desc |-> <<"P", ",", " ", "a">>,
   road_position |-> "edge", reports_count |-> 1]

\* The table when the clients load the page: empty, or holding one row.
InitStores == {{}, {SeedRow}}

\* The table holding one row, or the two rows of one description.
EdgeStores == {{SeedRow}, {SeedRow, SeedTwin}}

\* A row whose reports_count is null or 0, the case that `reports_count || 1`
\* and `item.reports_count || Math.floor(...)` provide for: 0 stands for both.
LegacyRow ==
  [id |-> 1, lat |-> 47, lng |-> 19, location_desc |-> <<"P", ",", " ", "a">>,
   road_position |-> "center", reports_count |-> 0]

\* The forms the users of this behaviour fill in.
AddressInputs ==
  CASE inputs = "plain" -> AddressForms
    [] inputs = "edge" -> EdgeAddressForms
    [] inputs = "repeat" -> RepeatAddressForms

TapInputs ==
  CASE inputs = "plain" -> TapForms
    [] inputs = "edge" -> EdgeTapForms
    [] inputs = "repeat" -> RepeatTapForms

\* How many submissions a behaviour holds.
Budget == IF inputs = "repeat" THEN MaxRepeats ELSE MaxSubmits

RandomMax == 12

\* item.reports_count || Math.floor(Math.random() * 12) + 1, over the rows
Processed(data) ==
  LET missing == {r \in data : r.reports_count = 0}
  IN  { {IF r \in missing THEN [r EXCEPT !.reports_count = f[r]] ELSE r : r \in data} :
        f \in [missing -> 1..RandomMax] }

\* What the page of c can show once the list read of its mount-time
\* fetchReports has settled: the table as it was, as the build publishes it,
\* or nothing if the read failed.
Mounted(c) ==
  {{}} \cup (IF variant[c] = "T3" THEN Processed(potholes) ELSE {potholes})

\* The clients have loaded the page of the deployed build.
Loaded ==
  /\ log = <<>>
  \* one build is deployed at a time
  /\ \E v \in Variants : variant = [c \in Clients |-> v]
  /\ supabase \in [Clients -> BOOLEAN]
  /\ pc = [c \in Clients |-> "idle"]
  /\ loading = [c \in Clients |-> FALSE]
  /\ form = [c \in Clients |-> NoForm]
  /\ existing = [c \in Clients |-> NoRow]
  /\ geoData = [c \in Clients |-> NoGeo]
  \* useEffect(() => { fetchReports(); }, ...) has run and its list read has
  \* settled
  /\ reports \in [Clients -> UNION {Mounted(c) : c \in Clients}]
  /\ \A c \in Clients : reports[c] \in Mounted(c)
  /\ \A c \in Clients : ~supabase[c] => reports[c] = {}
  /\ reads = [c \in Clients |-> {}]
  /\ sent = [c \in Clients |-> <<>>]
  /\ wrote = [c \in Clients |-> "none"]
  /\ notes = [c \in Clients |-> <<>>]
  /\ nsub = 0
  /\ overlap = FALSE

Init ==
  /\ potholes \in InitStores
  /\ inputs = "plain"
  /\ Loaded

InitEdge ==
  /\ potholes \in EdgeStores
  /\ inputs = "edge"
  /\ Loaded

InitLegacy ==
  /\ potholes = {LegacyRow}
  /\ inputs = "plain"
  /\ Loaded

InitRepeat ==
  /\ potholes \in InitStores
  /\ inputs = "repeat"
  /\ Loaded

\* ---------------------------------------------------------------- store

\* .ilike('location_desc', fullAddress)
Matches(pattern) == {r \in potholes : ILike(pattern, r.location_desc)}

Selected(r) == [id |-> r.id, reports_count |-> r.reports_count]

\* The lookup without its .ilike filter: any row of the table.
FindLimit1NoFilter(pattern) ==
  IF potholes = {} THEN {NoRow} ELSE {Selected(r) : r \in potholes}

\* existingReports.length > 1: the one row of limit(1) is never taken.
FindLimit1LengthAboveOne(pattern) == {NoRow}

\* .limit(1) without an order: the store may hand back any matching row.
\* existingReports.length > 0 ? existingReports[0] : null
FindLimit1(pattern) ==
  IF Matches(pattern) = {} THEN {NoRow} ELSE {Selected(r) : r \in Matches(pattern)}

\* .maybeSingle(): no row is null, one row is the row, more rows are an error
MaybeSingleFails(pattern) == Cardinality(Matches(pattern)) > 1

MaybeSingle(pattern) ==
  IF Matches(pattern) = {} THEN {NoRow} ELSE {Selected(r) : r \in Matches(pattern)}

\* reports_count: 0
InsertRowCountZero(lat, lng, desc, rp) ==
  [id |-> Cardinality(potholes) + 1, lat |-> lat, lng |-> lng,
   location_desc |-> desc, road_position |-> rp, reports_count |-> 0]

\* .insert([{ lat, lng, location_desc, road_position, reports_count: 1 }])
InsertRow(lat, lng, desc, rp) ==
  [id |-> Cardinality(potholes) + 1, lat |-> lat, lng |-> lng,
   location_desc |-> desc, road_position |-> rp, reports_count |-> 1]

\* existing.reports_count || 1
OrOne(n) == IF n = 0 THEN 1 ELSE n

\* .update({ reports_count: ..., lat: 0, lng: 0 }).eq('id', existing.id)
UpdateCountAndCoordinates(row) ==
  {IF r.id = row.id
   THEN [r EXCEPT !.reports_count = OrOne(row.reports_count) + 1, !.lat = 0, !.lng = 0]
   ELSE r : r \in potholes}

\* .update({ reports_count: (existing.reports_count || 1) + 1 }).eq('id', existing.id)
UpdateCount(row) ==
  {IF r.id = row.id THEN [r EXCEPT !.reports_count = OrOne(row.reports_count) + 1]
   ELSE r : r \in potholes}

\* The store's function increment_pothole_count(row_id): one atomic
\* reports_count = reports_count + 1 on the row.
IncrementPotholeCount(id) ==
  {IF r.id = id THEN [r EXCEPT !.reports_count = @ + 1] ELSE r : r \in potholes}

\* ---------------------------------------------------------------- steps

Note(kind, n) == [kind |-> kind, n |-> n]

Others(c) == Clients \ {c}

\* A handler passes its guard and starts: the history of the behaviour.
Started(c) ==
  /\ nsub < Budget
  /\ nsub' = nsub + 1
  /\ overlap' = (overlap \/ \E d \in Others(c) : pc[d] # "idle")

\* The store acknowledged a write of the handler of c.
Logged(c, kind, id) ==
  log' = Append(log, [kind |-> kind, id |-> id, desc |-> form[c].location_desc])

\* The place of a new list read in the order of issue: after those in flight.
NextRead(c) ==
  IF reads[c] = {} THEN 1
  ELSE 1 + CHOOSE n \in {r.n : r \in reads[c]} : \A r \in reads[c] : r.n <= n

\* fetchReports() is called: `if (!supabase) return;` then the select is sent.
IssueRead(c, awaited) ==
  reads' = [reads EXCEPT ![c] =
    @ \cup {[n |-> NextRead(c), awaited |-> awaited, served |-> FALSE, data |-> {},
              late |-> FALSE]}]

\* catch (err) { alert(...) } finally { setLoading(false) }
Catch(c) ==
  /\ notes' = [notes EXCEPT ![c] = Append(@, Note("error", 0))]
  /\ loading' = [loading EXCEPT ![c] = FALSE]
  /\ pc' = [pc EXCEPT ![c] = "done"]

\* findError of maybeSingle() over several rows is thrown and caught.
CatchMultiple(c) ==
  /\ notes' = [notes EXCEPT ![c] = Append(@, Note("multipleRows", 0))]
  /\ loading' = [loading EXCEPT ![c] = FALSE]
  /\ pc' = [pc EXCEPT ![c] = "done"]

\* A submit button that is never disabled.
SubmitDisabledNever(c) == FALSE

\* disabled={loading} of the submit button: nothing else keeps handleSubmit
\* from being run again.
SubmitDisabled(c) == loading[c]

\* Builds T1 and T3 render a banner in place of the page when supabase is
\* null; the address builds render the page and its form regardless.
FormRendered(c) == variant[c] \in TapVariants => supabase[c]

\* A run of handleSubmit begins: what the previous run left is gone.
Begins(c) ==
  /\ existing' = [existing EXCEPT ![c] = NoRow]
  /\ geoData' = [geoData EXCEPT ![c] = NoGeo]
  /\ wrote' = [wrote EXCEPT ![c] = "none"]

\* A submit that is turned away: by the browser, for the empty `required`
\* street field, with its own message; by `if (!address || !supabase)
\* return;` of the address builds; by `if (!newCoords || !desc.trim())
\* return;` of build T3.  A tap form is open only after a click on the map
\* has set newCoords, and T3's alert for a null supabase is behind its banner.
Rejected(c) ==
  /\ ~SubmitDisabled(c)
  /\ FormRendered(c)
  /\ variant[c] # "T1"
  /\ IF variant[c] \in AddrVariants
     THEN \E f \in AddressInputs :
            /\ f.address = <<>> \/ ~supabase[c]
            /\ notes' = [notes EXCEPT ![c] =
                 IF f.address = <<>> THEN <<Note("validation", 0)>> ELSE <<>>]
     ELSE \E f \in TapInputs :
            /\ Trim(f.desc) = <<>>
            /\ notes' = [notes EXCEPT ![c] = <<>>]
  /\ Begins(c)
  /\ form' = [form EXCEPT ![c] = NoForm]
  /\ sent' = [sent EXCEPT ![c] = <<>>]
  /\ pc' = [pc EXCEPT ![c] = "done"]
  /\ UNCHANGED <<store, build, loading, fetches, history>>

\* handleSubmit of the address form, up to its first await: the guard, then
\* setLoading(true), the composed address and the lookup request.
HandleSubmit(c) ==
  /\ variant[c] \in AddrVariants
  /\ ~SubmitDisabled(c)
  /\ supabase[c]
  /\ Started(c)
  /\ \E f \in AddressInputs :
       /\ f.address # <<>>
       /\ f.roadPos \in RoadPositions
       /\ form' = [form EXCEPT ![c] =
            [location_desc |-> FullAddress(variant[c], f.city, f.address),
             road_position |-> f.roadPos, lat |-> 0, lng |-> 0]]
  /\ Begins(c)
  /\ notes' = [notes EXCEPT ![c] = <<>>]
  /\ loading' = [loading EXCEPT ![c] = TRUE]
  /\ pc' = [pc EXCEPT ![c] = "find"]
  /\ sent' = [sent EXCEPT ![c] = <<"find">>]
  /\ UNCHANGED <<store, build, fetches>>

\* The lookup returned `row` (NoRow for null): `if (existing)` picks the branch
\* and the next request goes out.
Found(c, row) ==
  /\ existing' = [existing EXCEPT ![c] = row]
  /\ pc' = [pc EXCEPT ![c] = IF row # NoRow THEN "increment" ELSE "geo"]
  /\ sent' = [sent EXCEPT ![c] =
       Append(@, IF row = NoRow THEN "geo" ELSE IF variant[c] = "P0" THEN "update" ELSE "rpc")]
  /\ UNCHANGED <<loading, notes>>

\* The lookup settles.
Find(c) ==
  /\ pc[c] = "find"
  /\ \E o \in StoreOutcomes :
       IF o # "ok" THEN Catch(c) /\ UNCHANGED <<existing, sent>>
       ELSE IF variant[c] = "P0"
         THEN \E row \in FindLimit1(form[c].location_desc) : Found(c, row)
       ELSE IF MaybeSingleFails(form[c].location_desc)
         THEN CatchMultiple(c) /\ UNCHANGED <<existing, sent>>
       ELSE \E row \in MaybeSingle(form[c].location_desc) : Found(c, row)
  /\ UNCHANGED <<store, build, form, geoData, wrote, fetches, history>>

\* What the increment request does to the table when the store runs it.
Incremented(c) ==
  IF variant[c] = "P0" THEN UpdateCount(existing[c])
  ELSE IncrementPotholeCount(existing[c].id)

\* No `else`: after the increment the handler goes on to the insert.
WrittenThenInsert(c, what, note) ==
  /\ wrote' = [wrote EXCEPT ![c] = what]
  /\ notes' = [notes EXCEPT ![c] = Append(@, note)]
  /\ IF what = "increment"
     THEN /\ sent' = [sent EXCEPT ![c] = Append(@, "insert")]
          /\ pc' = [pc EXCEPT ![c] = "insert"]
          /\ UNCHANGED reads
     ELSE /\ IssueRead(c, TRUE)
          /\ sent' = [sent EXCEPT ![c] = Append(@, "list")]
          /\ pc' = [pc EXCEPT ![c] = "refresh"]
  /\ UNCHANGED <<loading, reports>>

\* After a successful write: the success alert, setIsFormOpen(false),
\* setAddress('') and `await fetchReports()`.
Written(c, what, note) ==
  /\ wrote' = [wrote EXCEPT ![c] = what]
  /\ notes' = [notes EXCEPT ![c] = Append(@, note)]
  /\ IssueRead(c, TRUE)
  /\ sent' = [sent EXCEPT ![c] = Append(@, "list")]
  /\ pc' = [pc EXCEPT ![c] = "refresh"]
  /\ UNCHANGED <<loading, reports>>

\* The increment request settles.
Increment(c) ==
  /\ pc[c] = "increment"
  /\ \E o \in StoreOutcomes :
       IF o = "ok"
       THEN /\ potholes' = Incremented(c)
            /\ Logged(c, "increment", existing[c].id)
            /\ Written(c, "increment", Note("incremented", existing[c].reports_count + 1))
       ELSE /\ Catch(c)
            /\ UNCHANGED <<store, wrote, sent, fetches>>
  /\ UNCHANGED <<build, form, existing, geoData, history>>

\* !geoData, without the length check
NoCandidateNullOnly(g) == g.kind = "null"

\* !geoData || geoData.length === 0
NoCandidate(g) == g.kind = "null" \/ g.body = <<>>

\* What throws between the fetch and the insert request: a rejected fetch or
\* json(), or geoData[0].lat of an array without a first element.
GeoThrows(g) == g.kind = "throw" \/ (~NoCandidate(g) /\ g.body = <<>>)

\* The resolver's answer settles: fetch, geoRes.json(), the empty check, and
\* on a candidate the insert request with the parsed coordinates.
Geocode(c) ==
  /\ pc[c] = "geo"
  /\ \E g \in GeoResponses :
       /\ geoData' = [geoData EXCEPT ![c] = g]
       /\ IF GeoThrows(g) THEN Catch(c) /\ UNCHANGED <<form, sent>>
          ELSE IF NoCandidate(g)
            THEN /\ notes' = [notes EXCEPT ![c] = Append(@, Note("addressNotFound", 0))]
                 /\ loading' = [loading EXCEPT ![c] = FALSE]
                 /\ pc' = [pc EXCEPT ![c] = "done"]
                 /\ UNCHANGED <<form, sent>>
          ELSE /\ form' = [form EXCEPT ![c] =
                    [@ EXCEPT !.lat = ParseFloat(g.body[1].lat),
                              !.lng = ParseFloat(g.body[1].lon)]]
               /\ pc' = [pc EXCEPT ![c] = "insert"]
               /\ sent' = [sent EXCEPT ![c] = Append(@, "insert")]
               /\ UNCHANGED <<loading, notes>>
  /\ UNCHANGED <<store, build, existing, wrote, fetches, history>>

\* lat: parseFloat(geoData[0].lon), lng: parseFloat(geoData[0].lat)
NewRowSwapped(c) ==
  InsertRow(form[c].lng, form[c].lat, form[c].location_desc, form[c].road_position)

\* The row the running handler asks the store to insert.
NewRow(c) ==
  InsertRow(form[c].lat, form[c].lng, form[c].location_desc, form[c].road_position)

\* An insert under a uniqueness rule on location_desc: a conflicting row is
\* counted up instead.
InsertedOnConflict(c) ==
  IF \E r \in potholes : r.location_desc = form[c].location_desc
  THEN {IF r.location_desc = form[c].location_desc
        THEN [r EXCEPT !.reports_count = @ + 1] ELSE r : r \in potholes}
  ELSE potholes \cup {NewRow(c)}

\* The table after the store ran the insert: one more row, whatever the
\* table holds already (location_desc carries no uniqueness).
Inserted(c) == potholes \cup {NewRow(c)}

\* The insert request of the address form settles.
Insert(c) ==
  /\ variant[c] \in AddrVariants
  /\ pc[c] = "insert"
  /\ \E o \in StoreOutcomes :
       IF o = "ok"
       THEN /\ potholes' = Inserted(c)
            /\ Logged(c, "insert", NewRow(c).id)
            /\ Written(c, "insert", Note("inserted", 0))
       ELSE /\ Catch(c)
            /\ UNCHANGED <<store, wrote, sent, fetches>>
  /\ UNCHANGED <<build, form, existing, geoData, history>>

\* handleSubmit of the tap form (builds T1 and T3), up to its await: the guard,
\* setLoading(true) and the insert request.  The form is opened by a click on
\* the map, which sets newCoords; T1's insert names no road_position.
TapSubmit(c) ==
  /\ variant[c] \in TapVariants
  /\ ~SubmitDisabled(c)
  /\ supabase[c]
  /\ Started(c)
  /\ \E f \in TapInputs :
       /\ variant[c] = "T3" => Trim(f.desc) # <<>>
       /\ f.roadPos \in RoadPositions
       /\ form' = [form EXCEPT ![c] =
            [location_desc |-> f.desc,
             road_position |-> IF variant[c] = "T1" THEN "null" ELSE f.roadPos,
             lat |-> f.newCoords.lat, lng |-> f.newCoords.lng]]
  /\ Begins(c)
  /\ notes' = [notes EXCEPT ![c] = <<>>]
  /\ loading' = [loading EXCEPT ![c] = TRUE]
  /\ pc' = [pc EXCEPT ![c] = "insert"]
  /\ sent' = [sent EXCEPT ![c] = <<"insert">>]
  /\ UNCHANGED <<store, build, fetches>>

\* The insert request of build T1 settles.  No try: a rejected call ends the
\* handler where it stands, before setLoading(false).
TapInsertT1(c) ==
  /\ variant[c] = "T1"
  /\ pc[c] = "insert"
  /\ pc' = [pc EXCEPT ![c] = "done"]
  /\ \E o \in StoreOutcomes :
       CASE o = "ok" ->
              /\ potholes' = Inserted(c)
              /\ Logged(c, "insert", NewRow(c).id)
              /\ wrote' = [wrote EXCEPT ![c] = "insert"]
              /\ loading' = [loading EXCEPT ![c] = FALSE]
              /\ IssueRead(c, FALSE)
              /\ sent' = [sent EXCEPT ![c] = Append(@, "list")]
              /\ UNCHANGED <<notes, reports>>
         [] o = "error" ->
              /\ loading' = [loading EXCEPT ![c] = FALSE]
              /\ notes' = [notes EXCEPT ![c] = Append(@, Note("error", 0))]
              /\ UNCHANGED <<store, wrote, sent, fetches>>
         [] o = "throw" ->
              UNCHANGED <<store, wrote, loading, notes, sent, fetches>>
  /\ UNCHANGED <<build, form, existing, geoData, history>>

\* The insert request of build T3 settles, inside try / catch / finally.
TapInsertT3(c) ==
  /\ variant[c] = "T3"
  /\ pc[c] = "insert"
  /\ \E o \in StoreOutcomes :
       IF o = "ok"
       THEN /\ potholes' = Inserted(c)
            /\ Logged(c, "insert", NewRow(c).id)
            /\ wrote' = [wrote EXCEPT ![c] = "insert"]
            /\ notes' = [notes EXCEPT ![c] = Append(@, Note("inserted", 0))]
            /\ IssueRead(c, FALSE)
            /\ sent' = [sent EXCEPT ![c] = Append(@, "list")]
            /\ loading' = [loading EXCEPT ![c] = FALSE]
            /\ pc' = [pc EXCEPT ![c] = "done"]
            /\ UNCHANGED reports
       ELSE /\ Catch(c)
            /\ UNCHANGED <<store, wrote, sent, fetches>>
  /\ UNCHANGED <<build, form, existing, geoData, history>>

\* The handler has returned (or its promise has rejected): what it captured
\* and what it did are gone, and the form can be submitted again.
Settle(c) ==
  /\ pc[c] = "done"
  /\ pc' = [pc EXCEPT ![c] = "idle"]
  /\ form' = [form EXCEPT ![c] = NoForm]
  /\ existing' = [existing EXCEPT ![c] = NoRow]
  /\ geoData' = [geoData EXCEPT ![c] = NoGeo]
  /\ sent' = [sent EXCEPT ![c] = <<>>]
  /\ wrote' = [wrote EXCEPT ![c] = "none"]
  /\ notes' = [notes EXCEPT ![c] = <<>>]
  /\ UNCHANGED <<store, build, loading, fetches, history>>

\* The store answers a list read: select('*') of the table as it is now.
FetchServe(c) ==
  \E r \in reads[c] :
    /\ ~r.served
    /\ reads' = [reads EXCEPT ![c] =
         (@ \ {r}) \cup {[r EXCEPT !.served = TRUE, !.data = potholes]}]
    /\ UNCHANGED <<store, build, handler, reports, history>>

\* What fetchReports publishes when its select settled as `o` with `data`.
Published(c, o, data) ==
  IF o # "ok" THEN {reports[c]}
  ELSE IF variant[c] = "T3" THEN Processed(data)
  ELSE {data}

\* Whether fetchReports lets a rejected select escape to its caller: the
\* address builds have no try around it.
Escapes(c, o) == o = "throw" /\ variant[c] \in AddrVariants

\* The reads of c still in flight when its read r has settled as `o`.  History:
\* a read issued before one that has published its rows is marked late.
Outstanding(c, r, o) ==
  {IF o = "ok" /\ x.n < r.n THEN [x EXCEPT !.late = TRUE] ELSE x : x \in reads[c] \ {r}}

\* A list read settles at the client: with the rows the store answered, or as
\* an error or a rejection.  The rest of fetchReports runs, and for
\* `await fetchReports()` the rest of handleSubmit after it.
FetchDone(c) ==
  \E r \in reads[c], o \in StoreOutcomes :
    /\ o = "ok" => r.served
    /\ reads' = [reads EXCEPT ![c] = Outstanding(c, r, o)]
    /\ \E snapshot \in Published(c, o, r.data) :
         reports' = [reports EXCEPT ![c] = snapshot]
    /\ IF r.awaited
       THEN /\ pc' = [pc EXCEPT ![c] = "done"]
            /\ loading' = [loading EXCEPT ![c] = FALSE]
            /\ notes' = [notes EXCEPT ![c] =
                 IF Escapes(c, o) THEN Append(@, Note("error", 0)) ELSE @]
       ELSE UNCHANGED <<pc, loading, notes>>
    /\ UNCHANGED <<store, build, form, existing, geoData, sent, wrote, history>>

Next ==
  \E c \in Clients :
    \/ Rejected(c)
    \/ HandleSubmit(c)
    \/ Find(c)
    \/ Increment(c)
    \/ Geocode(c)
    \/ Insert(c)
    \/ TapSubmit(c)
    \/ TapInsertT1(c)
    \/ TapInsertT3(c)
    \/ Settle(c)
    \/ FetchServe(c)
    \/ FetchDone(c)

Spec == Init /\ [][Next]_vars

\* The same program under unusual inputs and a table with a doubled row.
SpecEdge == InitEdge /\ [][Next]_vars

\* The same program over a table holding a row without a count.
SpecLegacy == InitLegacy /\ [][Next]_vars

\* The same program with one place reported over and over.
SpecRepeat == InitRepeat /\ [][Next]_vars

\* ---------------------------------------------------------------- claims

LowerText(s) == [i \in 1..Len(s) |-> Lower(s[i])]

SameKey(s, t) == LowerText(s) = LowerText(t)

AddressBuild == \A c \in Clients : variant[c] \in AddrVariants

WriteCalls == {"insert", "update", "rpc"}

Writes(s) == {i \in DOMAIN s : s[i] \in WriteCalls}

Ids(rows) == {r.id : r \in rows}

\* Acknowledged increments of row id.
Increments(id) ==
  Cardinality({i \in DOMAIN log : log[i].kind = "increment" /\ log[i].id = id})

InsertsLogged == Cardinality({i \in DOMAIN log : log[i].kind = "insert"})

\* The rows the table held before the first submission.
InitialRows == {r \in potholes : r.id <= Cardinality(potholes) - InsertsLogged}

\* C1: the write of a submission that matched an existing record creates no
\* record, raises the matched record's reportCount by exactly 1 and leaves
\* every record's coordinates as they were.
C1_MatchedSubmissionAddsOne ==
  [][\A c \in Clients :
       (pc[c] = "increment" /\ pc'[c] = "refresh") =>
         /\ Ids(potholes') = Ids(potholes)
         /\ \A r \in potholes, q \in potholes' :
              r.id = q.id =>
                /\ q.lat = r.lat /\ q.lng = r.lng
                /\ q.reports_count =
                     r.reports_count + (IF r.id = existing[c].id THEN 1 ELSE 0)]_vars

\* C2: in the address flow, a submission whose lookup found no record and
\* whose address the resolver resolved asks for an insert, and the accepted
\* insert adds exactly one record, with reportCount 1, the submitted
\* description and the coordinates the resolver returned; a refused insert
\* adds none.
C2_AddressInsertCreatesOne ==
  [][\A c \in Clients :
       variant[c] \in AddrVariants =>
         /\ (pc[c] = "geo" /\ geoData'[c].body # <<>>) =>
              /\ existing[c] = NoRow
              /\ pc'[c] = "insert"
              /\ sent'[c] = Append(sent[c], "insert")
         /\ (pc[c] = "insert" /\ pc'[c] = "refresh") =>
              \E r \in potholes' :
                /\ r.id \notin Ids(potholes)
                /\ potholes' = potholes \cup {r}
                /\ r.reports_count = 1
                /\ r.lat = ParseFloat(geoData[c].body[1].lat)
                /\ r.lng = ParseFloat(geoData[c].body[1].lon)
                /\ r.location_desc = form[c].location_desc
                /\ r.road_position = form[c].road_position
         /\ (pc[c] = "insert" /\ pc'[c] = "done") => potholes' = potholes]_vars

C2_Witness ==
  \E c \in Clients :
    /\ variant[c] \in AddrVariants
    /\ pc[c] = "refresh"
    /\ wrote[c] = "insert"
    /\ \E r \in potholes :
         /\ r.location_desc = form[c].location_desc
         /\ r.lat = 46 /\ r.lng = 20 /\ r.reports_count = 1

\* C3: no increment is lost: every record's reportCount is its starting
\* count 1 plus the number of increments the store acknowledged for it.
C3_NoIncrementLost ==
  \A r \in potholes : r.reports_count = 1 + Increments(r.id)

\* The acknowledged writes whose description has the key of d.
LoggedFor(d) == {i \in DOMAIN log : SameKey(log[i].desc, d)}

\* d was submitted twice with success, each time as d, to a table that held
\* no record for it, and no submission of the behaviour overlapped another.
TwiceInSequence(d) ==
  /\ AddressBuild
  /\ ~overlap
  /\ Cardinality(LoggedFor(d)) = 2
  /\ \A i \in LoggedFor(d) : log[i].desc = d
  /\ \A r \in InitialRows : ~ILike(d, r.location_desc)

\* C4: the same address description submitted twice in sequence, to a table
\* with no record for it, is inserted the first time and counted up the
\* second: one record for it, with reportCount 2.
C4_TwiceInSequenceCountsTwo ==
  \A d \in {log[i].desc : i \in DOMAIN log} :
    TwiceInSequence(d) =>
      \E i, j \in LoggedFor(d) :
        /\ i < j
        /\ log[i].kind = "insert"
        /\ log[j].kind = "increment"
        /\ log[j].id = log[i].id
        /\ \E r \in potholes : r.id = log[i].id /\ r.reports_count = 2
        /\ \A r \in potholes : SameKey(r.location_desc, d) => r.id = log[i].id

C4_Witness ==
  /\ \A c \in Clients : pc[c] = "idle"
  /\ \E d \in {log[i].desc : i \in DOMAIN log} : TwiceInSequence(d)

\* C5: while no submission has overlapped another, no two records share a
\* normalized locationDescription.
C5_OneRecordPerDescription ==
  ~overlap =>
    \A r, q \in potholes : SameKey(r.location_desc, q.location_desc) => r.id = q.id

\* Two clients' address submissions of one description, whose lookups both
\* returned no match and whose inserts were both accepted.
BothInserted(c, d) ==
  /\ c # d
  /\ AddressBuild
  /\ pc[c] \in {"refresh", "done"} /\ pc[d] \in {"refresh", "done"}
  /\ wrote[c] = "insert" /\ wrote[d] = "insert"
  /\ existing[c] = NoRow /\ existing[d] = NoRow
  /\ form[c].location_desc = form[d].location_desc

\* C6: when two clients' address submissions of one description both found
\* no match and both inserted, the table holds two records with that
\* locationDescription, each with reportCount 1 (and the witness: this state
\* is reached).
C6_BothInsertLeavesTwoRecords ==
  \A c, d \in Clients :
    BothInserted(c, d) =>
      \E r, q \in potholes :
        /\ r.id # q.id
        /\ r.location_desc = form[c].location_desc
        /\ q.location_desc = form[c].location_desc
        /\ r.reports_count = 1 /\ q.reports_count = 1

C6_Witness == \E c, d \in Clients : BothInserted(c, d)

\* C7: when the resolver answers an address submission with an empty
\* candidate list, the step inserts nothing and counts nothing up, the table
\* is as it was, the handler has issued no write, and it ends having shown
\* the one alert that the address was not found.
C7_GeocodingMissWritesNothing ==
  [][\A c \in Clients :
       (pc[c] = "geo" /\ geoData'[c] = [kind |-> "json", body |-> <<>>]) =>
         /\ potholes' = potholes
         /\ log' = log
         /\ Writes(sent'[c]) = {}
         /\ wrote'[c] = "none"
         /\ pc'[c] = "done"
         /\ ~loading'[c]
         /\ notes'[c] = <<Note("addressNotFound", 0)>>]_vars

C7_Witness ==
  \E c \in Clients :
    /\ pc[c] = "done"
    /\ geoData[c] = [kind |-> "json", body |-> <<>>]
    /\ notes[c] = <<Note("addressNotFound", 0)>>
    /\ potholes = InitialRows

\* The resolver failed the running handler: no answer, or no candidate.
GeocodingFailed(c) == geoData[c].kind \in {"throw", "null"} \/
  (geoData[c].kind = "json" /\ geoData[c].body = <<>>)

\* C8: a submission issues at most one store write: none after a geocoding
\* failure, no insert once an increment was acknowledged, and never both an
\* increment and an insert.
C8_AtMostOneWrite ==
  \A c \in Clients :
    /\ Cardinality(Writes(sent[c])) <= 1
    /\ GeocodingFailed(c) => Writes(sent[c]) = {}
    /\ wrote[c] = "increment" => \A i \in DOMAIN sent[c] : sent[c][i] # "insert"

C8_Witness ==
  \E c \in Clients :
    /\ pc[c] = "refresh"
    /\ wrote[c] = "increment"
    /\ Cardinality(Writes(sent[c])) = 1

\* C9: every stored record and every record of a published snapshot has
\* reportCount >= 1.
C9_CountsAtLeastOne ==
  /\ \A r \in potholes : r.reports_count >= 1
  /\ \A c \in Clients : \A r \in reports[c] : r.reports_count >= 1

C9_Witness ==
  \E c \in Clients :
    /\ \E r \in reports[c] : r.reports_count = 2
    /\ \E r \in potholes : r.reports_count = 2

\* C10: a handler that has ended, whichever way, has left the loading flag
\* false.
C10_EndsWithLoadingFalse ==
  \A c \in Clients : pc[c] \in {"done", "idle"} => ~loading[c]

\* The handler of c has ended a submission that passed its guard.
Ended(c) == pc[c] = "done" /\ sent[c] # <<>>

\* C11: a submission that has ended, in success or in any error, has shown
\* exactly one alert: not none, not two.
C11_ExactlyOneNotification ==
  \A c \in Clients : Ended(c) => Len(notes[c]) = 1

\* The handler of c is suspended at an await.
InFlight(c) == pc[c] \notin {"idle", "done"}

\* C12: a client has at most one submission in flight: while its handler is
\* suspended at an await its loading flag is true, and a run of the submit
\* workflow starts only at a client whose loading flag is false and whose
\* handler is not in flight.
C12_OneSubmissionInFlight ==
  /\ [](\A c \in Clients : InFlight(c) => loading[c])
  /\ [][nsub' # nsub =>
         \E c \in Clients :
           /\ ~InFlight(c)
           /\ ~loading[c]
           /\ pc'[c] \in {"find", "insert"}
           /\ loading'[c]
           /\ \A d \in Others(c) : pc'[d] = pc[d] /\ sent'[d] = sent[d]]_vars

C12_Witness ==
  \E c \in Clients :
    /\ pc[c] = "refresh"
    /\ loading[c]
    /\ SubmitDisabled(c)
    /\ nsub = 2

\* Where the first comma of s stands (an address description is
\* `city, street`).
CommaAt(s) == CHOOSE i \in 1..Len(s) : s[i] = "," /\ \A j \in 1..(i - 1) : s[j] # ","

CityOf(s) == Trim(SubSeq(s, 1, CommaAt(s) - 1))

StreetOf(s) == Trim(SubSeq(s, CommaAt(s) + 1, Len(s)))

\* The submission the handler of c runs was made with a required text
\* field empty.
MissingRequired(c) ==
  IF variant[c] \in AddrVariants
  THEN CityOf(form[c].location_desc) = <<>> \/ StreetOf(form[c].location_desc) = <<>>
  ELSE Trim(form[c].location_desc) = <<>>

\* The submit of c was turned away for an empty field.
TurnedAway(c) == pc[c] = "done" /\ sent[c] = <<>> /\ supabase[c]

\* C13: no handler issues a lookup, geocoding call, insert or increment for
\* a submission with an empty required text field, and a submit turned away
\* for an empty field has shown the validation message.
C13_EmptyFieldRejected ==
  \A c \in Clients :
    /\ sent[c] # <<>> => ~MissingRequired(c)
    /\ TurnedAway(c) => notes[c] = <<Note("validation", 0)>>

\* C14: at a client whose supabase handle is null no workflow step runs (no
\* lookup, geocoding call, write or list read is issued), and a submit made
\* there ends having signalled that the configuration is missing.
C14_ConfigurationMissingSignalled ==
  \A c \in Clients :
    ~supabase[c] =>
      /\ sent[c] = <<>>
      /\ reads[c] = {}
      /\ ~InFlight(c)
      /\ pc[c] = "done" => notes[c] = <<Note("configurationMissing", 0)>>

\* C15: the record a lookup reported as existing has a locationDescription
\* equal to the submitted description when letter case is ignored, and the
\* increment acknowledged for a submission went to such a record.
C15_MatchIsExactIgnoringCase ==
  \A c \in Clients :
    existing[c] # NoRow =>
      \E r \in potholes :
        /\ r.id = existing[c].id
        /\ SameKey(r.location_desc, form[c].location_desc)

\* The dedup key of an address description: its city and street segments,
\* trimmed and case-folded.
DedupKey(s) == <<LowerText(CityOf(s)), LowerText(StreetOf(s))>>

\* C16: while no submission has overlapped another, an address submission
\* is inserted as a new record only if no stored record has its dedup key:
\* a submission that differs from an earlier one only in white space around
\* a segment or in letter case never adds a second record.
C16_SameKeyNeverInsertedTwice ==
  [][\A c \in Clients :
       (AddressBuild /\ ~overlap /\ pc[c] = "insert" /\ pc'[c] = "refresh") =>
         \A r \in potholes :
           DedupKey(r.location_desc) # DedupKey(form[c].location_desc)]_vars

\* The stored records whose description is d when letter case is ignored.
Same(d) == {r \in potholes : SameKey(r.location_desc, d)}

\* The first of them, by id.
FirstSame(d) == CHOOSE r \in Same(d) : \A q \in Same(d) : r.id <= q.id

\* C17: when more than one stored record matches the submitted description,
\* the lookup does not fail on that account and reports the first matching
\* record by id; the increment that follows changes that record only.
C17_SeveralMatchesTolerated ==
  [][\A c \in Clients :
       /\ (pc[c] = "find" /\ pc'[c] # "find"
             /\ Cardinality(Same(form[c].location_desc)) > 1) =>
            /\ \A i \in DOMAIN notes'[c] : notes'[c][i].kind # "multipleRows"
            /\ pc'[c] = "increment" =>
                 existing'[c] = Selected(FirstSame(form[c].location_desc))
       /\ (pc[c] = "increment" /\ pc'[c] = "refresh") =>
            \A r \in potholes : r.id # existing[c].id => r \in potholes']_vars

\* C18: the count the success alert of an increment reports is the matched
\* record's reportCount in the store right after that increment.
C18_ReportedCountIsStoredCount ==
  [][\A c \in Clients :
       (pc[c] = "increment" /\ pc'[c] = "refresh") =>
         \E r \in potholes' :
           /\ r.id = existing[c].id
           /\ notes'[c][Len(notes'[c])] = Note("incremented", r.reports_count)]_vars

\* C19: no step changes the id, the coordinates, the locationDescription or
\* the roadPosition of a stored record, and no step removes a record: every
\* record is still there after the step, the same in all but its count.
C19_RecordsKeepAllButCount ==
  [][\A r \in potholes :
       \E q \in potholes' :
         /\ q.id = r.id
         /\ q.lat = r.lat /\ q.lng = r.lng
         /\ q.location_desc = r.location_desc
         /\ q.road_position = r.road_position]_vars

C19_Witness ==
  \E c \in Clients :
    /\ wrote[c] = "increment"
    /\ form[c].road_position # SeedRow.road_position
    /\ [SeedRow EXCEPT !.reports_count = 2] \in potholes

\* The handler of c has ended a submission whose write the store
\* acknowledged, and every list read of c has settled.
Refreshed(c) == pc[c] = "done" /\ wrote[c] # "none" /\ reads[c] = {}

\* C20: once a successful submission has ended and the client's list reads
\* have settled, the client's snapshot holds what the submission wrote: the
\* inserted record, or the matched record with a count above the one the
\* lookup had read.
C20_SnapshotHoldsTheWrite ==
  \A c \in Clients :
    Refreshed(c) =>
      \E r \in reports[c] :
        IF wrote[c] = "insert"
        THEN /\ r.location_desc = form[c].location_desc
             /\ r.lat = form[c].lat /\ r.lng = form[c].lng
             /\ r.reports_count >= 1
        ELSE /\ r.id = existing[c].id
             /\ r.reports_count > existing[c].reports_count

\* Where call `what` stands among the calls the handler of c has issued.
Issued(c, what) == {i \in DOMAIN sent[c] : sent[c][i] = what}

\* Every call `later` of the handler of c was issued after a call `earlier`.
Precedes(c, earlier, later) ==
  \A j \in Issued(c, later) : \E i \in Issued(c, earlier) : i < j

\* C21: a submission runs its phases in sequence: in the address flow the
\* lookup is issued before the increment or the geocoding call and the
\* geocoding call before the insert, the list read is issued after the
\* write, and the loading flag of a submission that wrote is false only
\* when its list read has settled.
C21_PhasesInSequence ==
  \A c \in Clients :
    /\ variant[c] \in AddrVariants =>
         /\ Precedes(c, "find", "update")
         /\ Precedes(c, "find", "rpc")
         /\ Precedes(c, "find", "geo")
         /\ Precedes(c, "geo", "insert")
    /\ \A j \in Issued(c, "list") : \E i \in Writes(sent[c]) : i < j
    /\ (wrote[c] # "none" /\ ~loading[c]) => reads[c] = {}

\* C22: whenever a client's snapshot changes, the new snapshot is the rows
\* of a list read of that client exactly as the store answered them, every
\* reportCount included.
C22_SnapshotCountsAreStoreCounts ==
  [][\A c \in Clients :
       reports'[c] # reports[c] =>
         \E r \in reads[c] :
           /\ r.served
           /\ r \notin reads'[c]
           /\ reports'[c] = r.data]_vars

\* The description the handler of c submitted had never been seen: no row
\* the table held at the start matches it, and the write of this handler is
\* the only acknowledged write under its key.
NeverSeen(c) ==
  /\ \A r \in InitialRows : ~ILike(form[c].location_desc, r.location_desc)
  /\ Cardinality(LoggedFor(form[c].location_desc)) = 1

\* Two clients' address submissions of two distinct, never-seen
\* descriptions, both of which got their write acknowledged.
TwoNew(c, d) ==
  /\ c # d
  /\ AddressBuild
  /\ pc[c] \in {"refresh", "done"} /\ pc[d] \in {"refresh", "done"}
  /\ wrote[c] # "none" /\ wrote[d] # "none"
  /\ ~SameKey(form[c].location_desc, form[d].location_desc)
  /\ NeverSeen(c) /\ NeverSeen(d)

\* C23: when two clients' address submissions of two distinct, never-seen
\* descriptions have both written, both writes were inserts, and the table
\* holds exactly one record for each description, the two records distinct
\* and each with reportCount 1.
C23_TwoNewAddressesTwoRecords ==
  \A c, d \in Clients :
    TwoNew(c, d) =>
      /\ wrote[c] = "insert" /\ wrote[d] = "insert"
      /\ \E r, q \in potholes :
           /\ r.id # q.id
           /\ r.reports_count = 1 /\ q.reports_count = 1
           /\ Same(form[c].location_desc) = {r}
           /\ Same(form[d].location_desc) = {q}
           /\ r.lat = form[c].lat /\ r.lng = form[c].lng
           /\ q.lat = form[d].lat /\ q.lng = form[d].lng

C23_Witness ==
  /\ overlap
  /\ \E c, d \in Clients : TwoNew(c, d) /\ pc[c] = "refresh" /\ pc[d] = "refresh"

\* C24: no step lowers the reportCount of a stored record.
C24_CountNeverDecreases ==
  [][\A r \in potholes : \A q \in potholes' :
       q.id = r.id => q.reports_count >= r.reports_count]_vars

\* C25: a list read that settles after a later-issued read of the same
\* client has published its rows leaves the snapshot as that later read
\* set it.
C25_EarlierReadNeverOverwrites ==
  [][\A c \in Clients : \A r \in reads[c] :
       (r.late /\ \A x \in reads'[c] : x.n # r.n) => reports'[c] = reports[c]]_vars

====
